---- MODULE Spec2Model ----
(***************************************************************************)
(* Model of the benchmark report pipeline of pg_tpcds                      *)
(* (benchmarks/report.py and its single-suite copy benchmarks/gen_chart.py)*)
(* and of the parallelism settings computed by gen_pg_conf.py              *)
(*                                                                         *)
(* Strings that the program compares or pattern-matches (directory names)  *)
(* are sequences of one-character strings, compared by code point as       *)
(* Python compares str.  Durations are integers in 1/1000 ms.              *)
(***************************************************************************)
EXTENDS Integers, Sequences, FiniteSets, TLC

VARIABLES
    fs,       \* run directories under base_dir: name -> [csv, png, meta]
    readme,   \* README.md at the base directory root
    pc,       \* position of the current invocation of main()
    cur,      \* locals of the invocation (date_str, sf, run_dir, ...), gone when it fails
    nruns,    \* number of invocations started so far
    alloc,    \* history: what make_run_dir returned, in call order
    removed,  \* number of files or directories the operator has deleted
    rows,     \* input of write_meta_json: sequence of bench_summary rows
    stats,    \* the "results" block written by write_meta_json
    durs,     \* input of create_chart: duration_ms of each row
    chart,    \* what create_chart drew
    inv,      \* two invocations of main() at once: position and locals of each
    hw,       \* gen_pg_conf.py: what os.cpu_count() and lscpu report
    params    \* gen_pg_conf.py: the "Parallelism" entries of calc_config

vars == <<fs, readme, pc, cur, nruns, alloc, removed, rows, stats, durs, chart,
          inv, hw, params>>

pipeVars  == <<fs, readme, pc, cur, nruns, alloc, removed>>
statsVars == <<rows, stats>>
chartVars == <<durs, chart>>
concVars  == <<inv>>
confVars  == <<hw, params>>

-----------------------------------------------------------------------------
(* Bounds *)

MaxRuns == 3          \* invocations of main() in Spec
MaxRemoved == 1       \* deletions by the operator in Spec
MaxOrderRuns == 10    \* invocations of main() in SpecOrder
MaxRows == 3          \* rows given to write_meta_json in SpecStats
MaxBars == 22         \* rows given to create_chart in SpecChart
MaxWideBars == 41     \* rows given to create_chart in SpecWide
MaxConcRuns == 2      \* invocations of main() in SpecConc, over both processes
MaxCpus == 16         \* os.cpu_count() and cores per socket in SpecConf
MaxSockets == 2       \* sockets in SpecConf

-----------------------------------------------------------------------------
(* Strings *)

\* code point of the characters that occur in directory names
Ord(c) ==
    CASE c = "-" -> 45
      [] c = "." -> 46
      [] c = "0" -> 48 [] c = "1" -> 49 [] c = "2" -> 50 [] c = "3" -> 51
      [] c = "4" -> 52 [] c = "5" -> 53 [] c = "6" -> 54 [] c = "7" -> 55
      [] c = "8" -> 56 [] c = "9" -> 57
      [] c = "_" -> 95
      [] c = "f" -> 102 [] c = "k" -> 107 [] c = "n" -> 110 [] c = "o" -> 111
      [] c = "s" -> 115 [] c = "u" -> 117 [] c = "w" -> 119

RECURSIVE StrLessFrom(_, _, _)
\* a < b, given that a and b agree before position i
StrLessFrom(a, b, i) ==
    IF i > Len(b) THEN FALSE
    ELSE IF i > Len(a) THEN TRUE
    ELSE IF a[i] = b[i] THEN StrLessFrom(a, b, i + 1)
    ELSE Ord(a[i]) < Ord(b[i])

\* Python's a < b on str: first differing code point, a proper prefix is less
StrLess(a, b) == StrLessFrom(a, b, 1)

DigitChar(d) == <<"0", "1", "2", "3", "4", "5", "6", "7", "8", "9">>[d + 1]

RECURSIVE StrInt(_)
\* str(n) for a non-negative int
StrInt(n) == IF n < 10 THEN <<DigitChar(n)>>
             ELSE StrInt(n \div 10) \o <<DigitChar(n % 10)>>

-----------------------------------------------------------------------------
(* Command line and data source *)

\* an optional value (None or a value) is the empty set or a singleton
None == {}
Some(v) == {v}
Val(o) == CHOOSE v \in o : TRUE

\* Python truthiness of an optional int: None and 0 are false
TruthyInt(o) == o # None /\ Val(o) # 0

\* Python truthiness of an optional str: None and "" are false
TruthyStr(o) == o # None /\ Val(o) # <<>>

Date1 == <<"2", "0", "2", "6", "-", "0", "1", "-", "0", "1">>
Date2 == <<"2", "0", "2", "6", "-", "0", "1", "-", "0", "2">>
DateCompact == <<"2", "0", "2", "6", "0", "1", "0", "3">>

\* datetime.date.today().isoformat()
Today == Date2

\* values of --date: absent, a date in another notation than YYYY-MM-DD
DateArgs == {None, Some(DateCompact)}
\* values of --sf (type=int): absent, 0, 1
SfArgs == {None, Some(0), Some(1)}
\* metadata["scale_factor"]: None when the config row is missing
MetaSfs == {None, Some(1)}

Unknown == <<"u", "n", "k", "n", "o", "w", "n">>

\* sf = args.sf or metadata.get("scale_factor") or "unknown", then f"{sf}"
ScaleStr(argSf, metaSf) ==
    IF TruthyInt(argSf) THEN StrInt(Val(argSf))
    ELSE IF TruthyInt(metaSf) THEN StrInt(Val(metaSf))
    ELSE Unknown

\* date_str = args.date or datetime.date.today().isoformat()
DateStr(argDate) == IF TruthyStr(argDate) THEN Val(argDate) ELSE Today

-----------------------------------------------------------------------------
(* Run directories *)

NoMeta == [st |-> "absent", by |-> 0]
EmptyDir == [csv |-> 0, png |-> 0, meta |-> NoMeta]

RECURSIVE FirstFree(_, _, _)
\* while os.path.exists(f"{run_dir}_{i}"): i += 1
FirstFree(names, run_dir, i) ==
    IF (run_dir \o <<"_">> \o StrInt(i)) \in names
    THEN FirstFree(names, run_dir, i + 1)
    ELSE i

\* variant: the first candidate is taken whether or not it exists
make_run_dir_noprobe(names, date_str, sf) == date_str \o <<"_", "s", "f">> \o sf

\* variant: the suffix search starts at the first suffix and stops there
make_run_dir_once(names, date_str, sf) ==
    LET run_dir == date_str \o <<"_", "s", "f">> \o sf
    IN  IF run_dir \in names THEN run_dir \o <<"_", "2">> ELSE run_dir

\* the path make_run_dir returns, names = the entries that exist in base_dir
make_run_dir(names, date_str, sf) ==
    LET run_dir == date_str \o <<"_", "s", "f">> \o sf
    IN  IF run_dir \in names
        THEN run_dir \o <<"_">> \o StrInt(FirstFree(names, run_dir, 2))
        ELSE run_dir

\* glob pattern "????-??-??_sf*" against one directory entry
GlobMatch(name) ==
    /\ Len(name) >= 13
    /\ name[1] # "."
    /\ name[5] = "-" /\ name[8] = "-"
    /\ name[11] = "_" /\ name[12] = "s" /\ name[13] = "f"

RECURSIVE SortDesc(_)
\* sorted(..., reverse=True) of a set of names
SortDesc(S) ==
    IF S = {} THEN <<>>
    ELSE LET m == CHOOSE x \in S : \A y \in S \ {x} : StrLess(y, x)
         IN  <<m>> \o SortDesc(S \ {m})

\* run_dirs = sorted(glob.glob(pattern), reverse=True)
RunDirs(fsys) == SortDesc({d \in DOMAIN fsys : GlobMatch(d)})

RECURSIVE ScanRuns_noexists(_, _)
\* variant: meta.json is opened without the os.path.exists test
ScanRuns_noexists(fsys, ds) ==
    IF ds = <<>> THEN [raised |-> FALSE, runs |-> <<>>]
    ELSE IF fsys[Head(ds)].meta.st # "ok" THEN [raised |-> TRUE, runs |-> <<>>]
    ELSE LET rest == ScanRuns_noexists(fsys, Tail(ds))
         IN  [raised |-> rest.raised,
              runs |-> IF rest.raised THEN <<>> ELSE <<Head(ds)>> \o rest.runs]

RECURSIVE ScanRuns(_, _)
\* the loop of update_readme over run_dirs: the runs it collects, and
\* whether json.load raised on an unreadable meta.json
ScanRuns(fsys, ds) ==
    IF ds = <<>> THEN [raised |-> FALSE, runs |-> <<>>]
    ELSE IF fsys[Head(ds)].meta.st = "absent" THEN ScanRuns(fsys, Tail(ds))
    ELSE IF fsys[Head(ds)].meta.st = "partial"
         THEN [raised |-> TRUE, runs |-> <<>>]
    ELSE LET rest == ScanRuns(fsys, Tail(ds))
         IN  [raised |-> rest.raised,
              runs |-> IF rest.raised THEN <<>> ELSE <<Head(ds)>> \o rest.runs]

NoReadme == [by |-> 0, runs |-> <<>>, latest |-> <<>>, table |-> <<>>]

\* README.md as written by call id from the collected runs: the "Latest Run"
\* section describes runs[0]; "if len(runs) > 1:" adds the "All Runs" table
\* with one row per element of runs
Readme(id, runs) ==
    [by |-> id, runs |-> runs, latest |-> runs[1],
     table |-> IF Len(runs) > 1 THEN runs ELSE <<>>]

\* variant: a placeholder index is written when no run is found
update_readme_placeholder(fsys, old, id) ==
    LET scan == ScanRuns(fsys, RunDirs(fsys))
    IN  [raised |-> scan.raised,
         readme |-> IF scan.raised THEN old
                    ELSE IF scan.runs = <<>>
                         THEN [NoReadme EXCEPT !.by = id]
                    ELSE Readme(id, scan.runs)]

\* variant: the "All Runs" table lists the runs other than the latest
update_readme_others(fsys, old, id) ==
    LET scan == ScanRuns(fsys, RunDirs(fsys))
    IN  [raised |-> scan.raised,
         readme |-> IF scan.raised \/ scan.runs = <<>> THEN old
                    ELSE [Readme(id, scan.runs) EXCEPT
                             !.table = Tail(scan.runs)]]

\* update_readme: whether it ends in the uncaught exception of json.load,
\* and README.md afterwards: unchanged when the scan raises or finds no run,
\* else "Latest Run" = runs[1] and, for more than one run, one "All Runs"
\* row per run
update_readme(fsys, old, id) ==
    LET scan == ScanRuns(fsys, RunDirs(fsys))
    IN  [raised |-> scan.raised,
         readme |-> IF scan.raised \/ scan.runs = <<>> THEN old
                    ELSE Readme(id, scan.runs)]

-----------------------------------------------------------------------------
(* write_meta_json: the "results" block *)

Statuses == {"OK", "ERROR", "TIMEOUT"}

\* duration_ms values, in 1/1000 ms: 0, 95.0, 95.004 and 120.5 ms
StatDurations == {0, 95000, 95004, 120500}

Row(i, s, d) == [query_id |-> i, status |-> s, duration_ms |-> d]

\* fetch_bench_data: rows ORDER BY query_id, here query_id = position
RowSeqs(n) == {[i \in 1..n |-> Row(i, f[i][1], f[i][2])] :
                  f \in [1..n -> Statuses \X StatDurations]}

RECURSIVE Insert(_, _)
Insert(x, sq) == IF sq = <<>> THEN <<x>>
                 ELSE IF x <= Head(sq) THEN <<x>> \o sq
                 ELSE <<Head(sq)>> \o Insert(x, Tail(sq))

RECURSIVE Sorted(_)
\* sorted(durations), ascending
Sorted(sq) == IF sq = <<>> THEN <<>> ELSE Insert(Head(sq), Sorted(Tail(sq)))

RECURSIVE Sum(_)
Sum(sq) == IF sq = <<>> THEN 0 ELSE Head(sq) + Sum(Tail(sq))

\* min(durations), max(durations) of a non-empty list
MinOf(sq) == Sorted(sq)[1]
MaxOf(sq) == Sorted(sq)[Len(sq)]

\* statistics.median: the middle value, or the mean of the two middle values
Median(sq) ==
    LET srt == Sorted(sq)
        n == Len(sq)
    IN  IF n % 2 = 1 THEN srt[(n + 1) \div 2]
        ELSE (srt[n \div 2] + srt[n \div 2 + 1]) \div 2

\* round(x, 2): from 1/1000 ms to 1/100 ms, to the nearest (the values of
\* StatDurations and their means of two never end in 5, so no tie arises)
Round2(x) == (x + 5) \div 10

\* round(x / 1000, 1): from 1/1000 ms to 1/10 s
Round1s(x) == (x + 50000) \div 100000

\* min(rows, key=duration): the first row of least duration
FirstMin(rs) ==
    CHOOSE i \in 1..Len(rs) :
        /\ \A j \in 1..Len(rs) : rs[i].duration_ms <= rs[j].duration_ms
        /\ \A j \in 1..(i - 1) : rs[j].duration_ms # rs[i].duration_ms

\* max(rows, key=duration): the first row of greatest duration
FirstMax(rs) ==
    CHOOSE i \in 1..Len(rs) :
        /\ \A j \in 1..Len(rs) : rs[i].duration_ms >= rs[j].duration_ms
        /\ \A j \in 1..(i - 1) : rs[j].duration_ms # rs[i].duration_ms

\* ok_count = sum(1 for r in rows if r["status"] == "OK")
OkCount(rs) == Cardinality({i \in 1..Len(rs) : rs[i].status = "OK"})

\* variant: the rows whose status is "ERROR" are counted
ErrCount_byStatus(rs) == Cardinality({i \in 1..Len(rs) : rs[i].status = "ERROR"})

\* err_count = len(rows) - ok_count
ErrCount(rs) == Len(rs) - OkCount(rs)

\* ok_durations = [duration of r for r in rows if r["status"] == "OK"]
OkDurations(rs) ==
    LET F[k \in 0..Len(rs)] ==
            IF k = 0 THEN <<>>
            ELSE IF rs[k].status = "OK"
                 THEN Append(F[k - 1], rs[k].duration_ms)
                 ELSE F[k - 1]
    IN  F[Len(rs)]

NoStats == [written |-> FALSE, total_queries |-> 0, ok_count |-> 0,
            error_count |-> 0, total_duration_ms |-> 0, total_duration_s |-> 0,
            min_duration_ms |-> 0, max_duration_ms |-> 0,
            median_duration_ms |-> 0,
            fastest_query |-> None, slowest_query |-> None]

\* meta["results"] as write_meta_json builds it
Results(rs) ==
    LET durations == [i \in 1..Len(rs) |-> rs[i].duration_ms]
        ok_durations == OkDurations(rs)
        fastest_q == IF ok_durations # <<>> THEN Some(rs[FirstMin(rs)]) ELSE None
        slowest_q == IF ok_durations # <<>> THEN Some(rs[FirstMax(rs)]) ELSE None
    IN  [written |-> TRUE,
         total_queries |-> Len(rs),
         ok_count |-> OkCount(rs),
         error_count |-> ErrCount(rs),
         total_duration_ms |-> Round2(Sum(durations)),
         total_duration_s |-> Round1s(Sum(durations)),
         min_duration_ms |-> IF durations # <<>> THEN Round2(MinOf(durations)) ELSE 0,
         max_duration_ms |-> IF durations # <<>> THEN Round2(MaxOf(durations)) ELSE 0,
         median_duration_ms |-> IF durations # <<>> THEN Round2(Median(durations)) ELSE 0,
         fastest_query |-> IF fastest_q # None THEN Some(Val(fastest_q).query_id) ELSE None,
         slowest_query |-> IF slowest_q # None THEN Some(Val(slowest_q).query_id) ELSE None]

\* write_meta_json(run_dir, rows, ...) on the rows main fetched
WriteMetaStats ==
    /\ ~stats.written
    /\ stats' = Results(rows)
    /\ UNCHANGED rows

StatsInit ==
    /\ rows \in UNION {RowSeqs(n) : n \in 1..MaxRows}
    /\ stats = NoStats

-----------------------------------------------------------------------------
(* create_chart: outlier clipping *)

\* duration_ms values, in 1/1000 ms: 0, 100, 250 and 20000 ms
ChartDurations == {0, 100000, 205000, 5000000, 20000000}

\* n durations that are all b, except v1 at position p1 and v2 at position p2
ChartInput(n, b, p1, v1, p2, v2) ==
    [i \in 1..n |-> IF i = p1 THEN v1 ELSE IF i = p2 THEN v2 ELSE b]

\* variant: the percentile position is taken over the n - 1 gaps
P95Index_gaps(n) == ((n - 1) * 95) \div 100

\* variant: the 90th percentile
P95Index_p90(n) == (n * 90) \div 100

\* int(len(sorted_d) * 0.95): the product is exact in binary floating point
\* whenever 0.95 * n is an integer, so this is floor(95 n / 100)
P95Index(n) == (n * 95) \div 100

\* p95 = sorted_d[int(len(sorted_d) * 0.95)] if len(sorted_d) >= 5
\*       else max(sorted_d)      (Python indexes from 0)
P95(ds) ==
    LET sorted_d == Sorted(ds)
    IN  IF Len(sorted_d) >= 5 THEN sorted_d[P95Index(Len(sorted_d)) + 1]
        ELSE MaxOf(sorted_d)

\* variant: the outlier test uses twice the percentile
YCap_twice(ds) ==
    LET p95 == P95(ds)
    IN  IF MaxOf(ds) > 2 * p95 /\ p95 > 0 THEN Some(2 * p95) ELSE None

\* y_cap = None; if max(durations) > 3 * p95 and p95 > 0: y_cap = p95 * 2.0
YCap(ds) ==
    LET p95 == P95(ds)
    IN  IF MaxOf(ds) > 3 * p95 /\ p95 > 0 THEN Some(2 * p95) ELSE None

\* f"{d/1000:.0f}s" if d >= 1000 else f"{d:.0f}": the number shown and its
\* suffix (the values of ChartDurations are whole ms and whole s)
Label(d) ==
    IF d >= 1000000 THEN [num |-> (d + 500000) \div 1000000, suffix |-> "s"]
    ELSE [num |-> (d + 500) \div 1000, suffix |-> ""]

NoChart ==
    [drawn |-> FALSE, p95 |-> 0, y_cap |-> None, ylim |-> None,
     height |-> <<>>, text |-> <<>>]

\* variant: a clipped bar is redrawn at the y limit itself
Chart_atlimit(ds) ==
    LET y_cap == YCap(ds)
        clip == y_cap # None /\ Val(y_cap) # 0
    IN  [drawn |-> TRUE,
         p95 |-> P95(ds),
         y_cap |-> y_cap,
         ylim |-> IF clip THEN Some(112 * Val(y_cap)) ELSE None,
         height |-> [i \in 1..Len(ds) |->
                       IF clip /\ ds[i] > Val(y_cap) THEN 112 * Val(y_cap)
                       ELSE 100 * ds[i]],
         text |-> [i \in 1..Len(ds) |->
                       IF clip /\ ds[i] > Val(y_cap) THEN Some(Label(ds[i]))
                       ELSE None]]

\* the bars and annotations of queries.png; heights and the y limit are in
\* 1/100 of the duration unit so that 1.05 and 1.12 times the cap are whole
Chart(ds) ==
    LET y_cap == YCap(ds)
        \* "if y_cap:" is false for None and for 0.0
        clip == y_cap # None /\ Val(y_cap) # 0
    IN  [drawn |-> TRUE,
         p95 |-> P95(ds),
         y_cap |-> y_cap,
         \* ax.set_ylim(0, y_cap * 1.12)
         ylim |-> IF clip THEN Some(112 * Val(y_cap)) ELSE None,
         \* ax.bar(..., durations), bar.set_height(y_cap * 1.05) if d > y_cap
         height |-> [i \in 1..Len(ds) |->
                       IF clip /\ ds[i] > Val(y_cap) THEN 105 * Val(y_cap)
                       ELSE 100 * ds[i]],
         \* ax.text(i, y_cap * 1.07, label) if d > y_cap
         text |-> [i \in 1..Len(ds) |->
                       IF clip /\ ds[i] > Val(y_cap) THEN Some(Label(ds[i]))
                       ELSE None]]

\* create_chart(run_dir, rows, ...) on the rows main fetched
CreateChartFigure ==
    /\ ~chart.drawn
    /\ chart' = Chart(durs)
    /\ UNCHANGED durs

ChartInit ==
    /\ \E n \in 1..MaxBars, b, v1, v2 \in ChartDurations :
          \E p1 \in 1..n : \E p2 \in p1..n :
              durs = ChartInput(n, b, p1, v1, p2, v2)
    /\ chart = NoChart

\* longer row lists (TPC-DS has 99 queries): all b except the last two rows
WideInit ==
    /\ \E n \in 1..MaxWideBars, b, v1, v2 \in ChartDurations :
          durs = ChartInput(n, b, n - 1, v1, n, v2)
    /\ chart = NoChart

-----------------------------------------------------------------------------
(* main(): one invocation at a time *)

Idle == [id |-> 0, date |-> <<>>, sf |-> <<>>, run_dir |-> <<>>, pre |-> {}]

\* lines up to the allocation: arguments parsed, rows and metadata fetched
Begin(limit, argDate, argSf, metaSf) ==
    /\ pc \in {"idle", "done", "failed"}
    /\ nruns < limit
    /\ nruns' = nruns + 1
    /\ cur' = [id |-> nruns + 1, date |-> DateStr(argDate),
               sf |-> ScaleStr(argSf, metaSf), run_dir |-> <<>>,
               pre |-> DOMAIN fs]
    /\ pc' = "fetched"
    /\ UNCHANGED <<fs, readme, alloc, removed>>

Start == \E d \in DateArgs, a \in SfArgs, m \in MetaSfs : Begin(MaxRuns, d, a, m)

\* connect_db raises: "Cannot connect to PostgreSQL", exit status 1
ConnectFail ==
    /\ pc \in {"idle", "done", "failed"}
    /\ nruns < MaxRuns
    /\ nruns' = nruns + 1
    /\ cur' = [Idle EXCEPT !.id = nruns + 1, !.pre = DOMAIN fs]
    /\ pc' = "exit_connect"
    /\ UNCHANGED <<fs, readme, alloc, removed>>

\* variant: the rows are tested for emptiness after make_run_dir
NoData_late ==
    /\ pc = "allocated"
    /\ pc' = "exit_nodata"
    /\ UNCHANGED <<fs, readme, cur, nruns, alloc, removed>>

\* fetch_bench_data returns no row: "No data in bench_summary", exit status 1
NoData ==
    /\ pc \in {"idle", "done", "failed"}
    /\ nruns < MaxRuns
    /\ nruns' = nruns + 1
    /\ cur' = [Idle EXCEPT !.id = nruns + 1, !.pre = DOMAIN fs]
    /\ pc' = "exit_nodata"
    /\ UNCHANGED <<fs, readme, alloc, removed>>

\* the argument of sys.exit() at the two early exits; main returns otherwise
ExitStatus(p) == IF p \in {"exit_connect", "exit_nodata"} THEN 1 ELSE 0

\* the line printed to stderr at the two early exits
Stderr(p) ==
    CASE p = "exit_connect" -> "ERROR: Cannot connect to PostgreSQL"
      [] p = "exit_nodata" -> "ERROR: No data in bench_summary"
      [] OTHER -> ""

\* an exit with status 1 is over: the next invocation may start
Exited ==
    /\ pc \in {"exit_connect", "exit_nodata"}
    /\ pc' = "failed"
    /\ cur' = Idle
    /\ UNCHANGED <<fs, readme, nruns, alloc, removed>>

\* run_dir = make_run_dir(base_dir, date_str, sf)
MakeRunDir ==
    /\ pc = "fetched"
    /\ LET d == make_run_dir(DOMAIN fs, cur.date, cur.sf)
       IN  /\ cur' = [cur EXCEPT !.run_dir = d]
           /\ alloc' = Append(alloc, [name |-> d, date |-> cur.date, sf |-> cur.sf])
           \* os.makedirs(run_dir, exist_ok=True)
           /\ fs' = [x \in DOMAIN fs \cup {d} |->
                        IF x \in DOMAIN fs THEN fs[x] ELSE EmptyDir]
    /\ pc' = "allocated"
    /\ UNCHANGED <<readme, nruns, removed>>

\* variant: meta.json is the first artifact written
WriteSummaryCsv_metaFirst ==
    /\ pc = "allocated"
    /\ fs' = [fs EXCEPT ![cur.run_dir].meta = [st |-> "ok", by |-> cur.id]]
    /\ pc' = "csv"
    /\ UNCHANGED <<readme, cur, nruns, alloc, removed>>

\* write_summary_csv(run_dir, rows)
WriteSummaryCsv ==
    /\ pc = "allocated"
    /\ fs' = [fs EXCEPT ![cur.run_dir].csv = cur.id]
    /\ pc' = "csv"
    /\ UNCHANGED <<readme, cur, nruns, alloc, removed>>

\* create_chart(run_dir, rows, ...): fig.savefig(queries.png)
CreateChart ==
    /\ pc = "csv"
    /\ fs' = [fs EXCEPT ![cur.run_dir].png = cur.id]
    /\ pc' = "png"
    /\ UNCHANGED <<readme, cur, nruns, alloc, removed>>

\* write_meta_json(run_dir, rows, ...): open(path, "w"), json.dump
WriteMetaJson ==
    /\ pc = "png"
    /\ fs' = [fs EXCEPT ![cur.run_dir].meta = [st |-> "ok", by |-> cur.id]]
    /\ pc' = "meta"
    /\ UNCHANGED <<readme, cur, nruns, alloc, removed>>

\* write_meta_json fails after open(path, "w"): meta.json is left empty or
\* truncated and the invocation ends in the exception
WriteMetaJsonFails ==
    /\ pc = "png"
    /\ fs' = [fs EXCEPT ![cur.run_dir].meta = [st |-> "partial", by |-> cur.id]]
    /\ pc' = "failed"
    /\ cur' = Idle
    /\ UNCHANGED <<readme, nruns, alloc, removed>>

\* update_readme(base_dir, schema), then main returns
UpdateReadme ==
    /\ pc = "meta"
    /\ LET res == update_readme(fs, readme, cur.id)
       IN  /\ readme' = res.readme
           /\ pc' = IF res.raised THEN "failed" ELSE "done"
           /\ cur' = IF res.raised THEN Idle ELSE cur
    /\ UNCHANGED <<fs, nruns, alloc, removed>>

\* the invocation dies between two steps (a write raises, the process is killed)
Crash ==
    /\ pc \in {"fetched", "allocated", "csv", "png", "meta"}
    /\ pc' = "failed"
    /\ cur' = Idle
    /\ UNCHANGED <<fs, readme, nruns, alloc, removed>>

\* between two invocations the operator deletes the meta.json of a run
\* (a deletion that no invocation follows is not observed and is left out)
DeleteMeta ==
    /\ pc \in {"idle", "done", "failed"}
    /\ removed < MaxRemoved /\ nruns < MaxRuns
    /\ \E d \in DOMAIN fs :
          /\ fs[d].meta.st # "absent"
          /\ fs' = [fs EXCEPT ![d].meta = NoMeta]
    /\ removed' = removed + 1
    /\ UNCHANGED <<readme, pc, cur, nruns, alloc>>

\* between two invocations the operator removes a run directory
RemoveRunDir ==
    /\ pc \in {"idle", "done", "failed"}
    /\ removed < MaxRemoved /\ nruns < MaxRuns
    /\ \E d \in DOMAIN fs : fs' = [x \in DOMAIN fs \ {d} |-> fs[x]]
    /\ removed' = removed + 1
    /\ UNCHANGED <<readme, pc, cur, nruns, alloc>>

Invocation ==
    \/ MakeRunDir \/ WriteSummaryCsv \/ CreateChart \/ WriteMetaJson
    \/ WriteMetaJsonFails \/ UpdateReadme \/ Crash

-----------------------------------------------------------------------------
(* main(): two invocations at once on one base directory *)

Procs == {1, 2}

ConcIdle ==
    [pc |-> "idle", id |-> 0, date |-> <<>>, sf |-> <<>>, run_dir |-> <<>>,
     seen |-> {}]

NoInv == [p \in Procs |-> ConcIdle]

ConcOff == inv = NoInv

\* process p starts main(): arguments parsed, rows and metadata fetched
ConcStart(p) ==
    /\ inv[p].pc \in {"idle", "done", "raised"}
    /\ nruns < MaxConcRuns
    /\ nruns' = nruns + 1
    /\ \E a \in SfArgs :
          inv' = [inv EXCEPT ![p] =
                     [pc |-> "fetched", id |-> nruns + 1, date |-> DateStr(None),
                      sf |-> ScaleStr(a, None), run_dir |-> <<>>, seen |-> {}]]
    /\ UNCHANGED <<fs, readme>>

\* make_run_dir up to its last os.path.exists test: the candidate it settles
\* on.  Entries are only ever added here, so the candidates found present
\* earlier in the loop are still present at the last test and the loop
\* amounts to one look at the directory.
ConcProbe(p) ==
    /\ inv[p].pc = "fetched"
    /\ inv' = [inv EXCEPT ![p].pc = "probed",
                          ![p].seen = DOMAIN fs,
                          ![p].run_dir =
                              make_run_dir(DOMAIN fs, inv[p].date, inv[p].sf)]
    /\ UNCHANGED <<fs, readme, nruns>>

\* variant: os.makedirs(run_dir) without exist_ok raises on an existing path
ConcMakeDirs_exclusive(p) ==
    /\ inv[p].pc = "probed"
    /\ IF inv[p].run_dir \in DOMAIN fs
       THEN /\ inv' = [inv EXCEPT ![p].pc = "raised"]
            /\ fs' = fs
       ELSE /\ inv' = [inv EXCEPT ![p].pc = "allocated"]
            /\ fs' = [x \in DOMAIN fs \cup {inv[p].run_dir} |->
                         IF x \in DOMAIN fs THEN fs[x] ELSE EmptyDir]
    /\ UNCHANGED <<readme, nruns>>

\* os.makedirs(run_dir, exist_ok=True); return run_dir
ConcMakeDirs(p) ==
    /\ inv[p].pc = "probed"
    /\ inv' = [inv EXCEPT ![p].pc = "allocated"]
    /\ fs' = [x \in DOMAIN fs \cup {inv[p].run_dir} |->
                 IF x \in DOMAIN fs THEN fs[x] ELSE EmptyDir]
    /\ UNCHANGED <<readme, nruns>>

\* write_summary_csv(run_dir, rows)
ConcWriteSummaryCsv(p) ==
    /\ inv[p].pc = "allocated"
    /\ fs' = [fs EXCEPT ![inv[p].run_dir].csv = inv[p].id]
    /\ inv' = [inv EXCEPT ![p].pc = "csv"]
    /\ UNCHANGED <<readme, nruns>>

\* create_chart(run_dir, rows, ...): fig.savefig(queries.png)
ConcCreateChart(p) ==
    /\ inv[p].pc = "csv"
    /\ fs' = [fs EXCEPT ![inv[p].run_dir].png = inv[p].id]
    /\ inv' = [inv EXCEPT ![p].pc = "png"]
    /\ UNCHANGED <<readme, nruns>>

\* write_meta_json: open(path, "w") creates or truncates meta.json
ConcOpenMeta(p) ==
    /\ inv[p].pc = "png"
    /\ fs' = [fs EXCEPT ![inv[p].run_dir].meta =
                             [st |-> "partial", by |-> inv[p].id]]
    /\ inv' = [inv EXCEPT ![p].pc = "opened"]
    /\ UNCHANGED <<readme, nruns>>

\* write_meta_json: json.dump(meta, f) and the close at the end of "with"
ConcDumpMeta(p) ==
    /\ inv[p].pc = "opened"
    /\ fs' = [fs EXCEPT ![inv[p].run_dir].meta =
                             [st |-> "ok", by |-> inv[p].id]]
    /\ inv' = [inv EXCEPT ![p].pc = "meta"]
    /\ UNCHANGED <<readme, nruns>>

\* update_readme(base_dir, schema), then main returns
ConcUpdateReadme(p) ==
    /\ inv[p].pc = "meta"
    /\ LET res == update_readme(fs, readme, inv[p].id)
       IN  /\ readme' = res.readme
           /\ inv' = [inv EXCEPT ![p].pc =
                                     IF res.raised THEN "raised" ELSE "done"]
    /\ UNCHANGED <<fs, nruns>>

ConcInit ==
    /\ fs = <<>> /\ readme = NoReadme /\ nruns = 0
    /\ inv = NoInv

-----------------------------------------------------------------------------
(* gen_pg_conf.py: detect_cpu and the parallelism settings of calc_config *)

\* os.cpu_count(): None (written 0) or a positive count
CpuCounts == 0..MaxCpus

\* lscpu: not available (None), or "Core(s) per socket" and "Socket(s)"
LscpuOutputs ==
    {None} \cup
    {Some([cores_per_socket |-> c, sockets |-> k]) :
        c \in 1..MaxCpus, k \in 1..MaxSockets}

Max2(a, b) == IF a >= b THEN a ELSE b
Min2(a, b) == IF a <= b THEN a ELSE b

\* detect_cpu(): (vcpus, physical_cores)
detect_cpu(count, lscpu) ==
    LET vcpus == IF count # 0 THEN count ELSE 1
        physical == IF lscpu = None THEN vcpus
                    ELSE Val(lscpu).cores_per_socket * Val(lscpu).sockets
    IN  [vcpus |-> vcpus, cores |-> Max2(physical, 1)]

NoHw == [count |-> 0, lscpu |-> None]

NoParams ==
    [written |-> FALSE, max_worker_processes |-> <<>>,
     max_parallel_workers |-> <<>>, max_parallel_workers_per_gather |-> <<>>,
     max_parallel_maintenance_workers |-> <<>>]

ConfOff == hw = NoHw /\ params = NoParams

\* the "Parallelism" entries of calc_config(vcpus, cores, ...), each value
\* formatted by str()
calc_config(vcpus, cores) ==
    [written |-> TRUE,
     max_worker_processes |-> StrInt(vcpus),
     max_parallel_workers |-> StrInt(cores),
     max_parallel_workers_per_gather |->
         StrInt(Max2(2, Min2(8, cores \div 4))),
     max_parallel_maintenance_workers |->
         StrInt(Max2(2, Min2(4, cores \div 8)))]

\* main(): vcpus, cores = detect_cpu(); params = calc_config(vcpus, cores, ...)
GenPgConf ==
    /\ ~params.written
    /\ LET cpu == detect_cpu(hw.count, hw.lscpu)
       IN  params' = calc_config(cpu.vcpus, cpu.cores)
    /\ UNCHANGED hw

ConfInit ==
    /\ \E n \in CpuCounts, l \in LscpuOutputs : hw = [count |-> n, lscpu |-> l]
    /\ params = NoParams

-----------------------------------------------------------------------------
(* Specifications *)

PipeInit ==
    /\ fs = <<>>
    /\ readme = NoReadme
    /\ pc = "idle"
    /\ cur = Idle
    /\ nruns = 0
    /\ alloc = <<>>
    /\ removed = 0

Init ==
    /\ PipeInit
    /\ rows = <<>> /\ stats = NoStats /\ durs = <<>> /\ chart = NoChart
    /\ ConcOff /\ ConfOff

Next ==
    \/ (Start /\ UNCHANGED <<statsVars, chartVars, concVars, confVars>>)
    \/ (ConnectFail /\ UNCHANGED <<statsVars, chartVars, concVars, confVars>>)
    \/ (NoData /\ UNCHANGED <<statsVars, chartVars, concVars, confVars>>)
    \/ (Exited /\ UNCHANGED <<statsVars, chartVars, concVars, confVars>>)
    \/ (MakeRunDir /\ UNCHANGED <<statsVars, chartVars, concVars, confVars>>)
    \/ (WriteSummaryCsv /\ UNCHANGED <<statsVars, chartVars, concVars, confVars>>)
    \/ (CreateChart /\ UNCHANGED <<statsVars, chartVars, concVars, confVars>>)
    \/ (WriteMetaJson /\ UNCHANGED <<statsVars, chartVars, concVars, confVars>>)
    \/ (WriteMetaJsonFails /\ UNCHANGED <<statsVars, chartVars, concVars, confVars>>)
    \/ (UpdateReadme /\ UNCHANGED <<statsVars, chartVars, concVars, confVars>>)
    \/ (Crash /\ UNCHANGED <<statsVars, chartVars, concVars, confVars>>)
    \/ (DeleteMeta /\ UNCHANGED <<statsVars, chartVars, concVars, confVars>>)
    \/ (RemoveRunDir /\ UNCHANGED <<statsVars, chartVars, concVars, confVars>>)

Spec == Init /\ [][Next]_vars

-----------------------------------------------------------------------------
(* write_meta_json on every bounded row sequence *)

InitStats ==
    /\ StatsInit
    /\ PipeInit
    /\ durs = <<>> /\ chart = NoChart
    /\ ConcOff /\ ConfOff

NextStats ==
    WriteMetaStats /\ UNCHANGED <<pipeVars, chartVars, concVars, confVars>>

SpecStats == InitStats /\ [][NextStats]_vars

-----------------------------------------------------------------------------
(* create_chart on every bounded duration list *)

InitChart ==
    /\ ChartInit
    /\ PipeInit
    /\ rows = <<>> /\ stats = NoStats
    /\ ConcOff /\ ConfOff

NextChart ==
    CreateChartFigure /\ UNCHANGED <<pipeVars, statsVars, concVars, confVars>>

SpecChart == InitChart /\ [][NextChart]_vars

InitWide ==
    /\ WideInit
    /\ PipeInit
    /\ rows = <<>> /\ stats = NoStats
    /\ ConcOff /\ ConfOff

SpecWide == InitWide /\ [][NextChart]_vars

-----------------------------------------------------------------------------
(* Invocations that all succeed, to reach two-digit suffixes *)

\* values of --date: absent, an ISO date
OrderDateArgs == {None, Some(Date1)}

StartOrder == \E d \in OrderDateArgs : Begin(MaxOrderRuns, d, None, Some(1))

NextOrder ==
    \/ (StartOrder /\ UNCHANGED <<statsVars, chartVars, concVars, confVars>>)
    \/ (MakeRunDir /\ UNCHANGED <<statsVars, chartVars, concVars, confVars>>)
    \/ (WriteSummaryCsv /\ UNCHANGED <<statsVars, chartVars, concVars, confVars>>)
    \/ (CreateChart /\ UNCHANGED <<statsVars, chartVars, concVars, confVars>>)
    \/ (WriteMetaJson /\ UNCHANGED <<statsVars, chartVars, concVars, confVars>>)
    \/ (UpdateReadme /\ UNCHANGED <<statsVars, chartVars, concVars, confVars>>)

SpecOrder == Init /\ [][NextOrder]_vars

-----------------------------------------------------------------------------
(* Two overlapping invocations *)

ConcIdleRest == pc = "idle" /\ cur = Idle /\ alloc = <<>> /\ removed = 0

InitConc ==
    /\ ConcInit
    /\ ConcIdleRest
    /\ rows = <<>> /\ stats = NoStats /\ durs = <<>> /\ chart = NoChart
    /\ ConfOff

ConcFrame == UNCHANGED <<pc, cur, alloc, removed, statsVars, chartVars, confVars>>

NextConc ==
    \/ (\E p \in Procs : ConcStart(p)) /\ ConcFrame
    \/ (\E p \in Procs : ConcProbe(p)) /\ ConcFrame
    \/ (\E p \in Procs : ConcMakeDirs(p)) /\ ConcFrame
    \/ (\E p \in Procs : ConcWriteSummaryCsv(p)) /\ ConcFrame
    \/ (\E p \in Procs : ConcCreateChart(p)) /\ ConcFrame
    \/ (\E p \in Procs : ConcOpenMeta(p)) /\ ConcFrame
    \/ (\E p \in Procs : ConcDumpMeta(p)) /\ ConcFrame
    \/ (\E p \in Procs : ConcUpdateReadme(p)) /\ ConcFrame

SpecConc == InitConc /\ [][NextConc]_vars

-----------------------------------------------------------------------------
(* gen_pg_conf.py on every bounded hardware report *)

InitConf ==
    /\ ConfInit
    /\ PipeInit
    /\ rows = <<>> /\ stats = NoStats /\ durs = <<>> /\ chart = NoChart
    /\ ConcOff

NextConf ==
    GenPgConf /\ UNCHANGED <<pipeVars, statsVars, chartVars, concVars>>

SpecConf == InitConf /\ [][NextConf]_vars

-----------------------------------------------------------------------------
(* Properties of write_meta_json *)

RowOf(q) == CHOOSE i \in 1..Len(rows) : rows[i].query_id = q

\* C1: fastest_query and slowest_query identify rows whose status is OK, and
\* both are null exactly when no row has status OK.
C1_FastestSlowestAreOk ==
    stats.written =>
        /\ (stats.fastest_query = None) <=> (OkCount(rows) = 0)
        /\ (stats.slowest_query = None) <=> (OkCount(rows) = 0)
        /\ \A q \in stats.fastest_query \cup stats.slowest_query :
              rows[RowOf(q)].status = "OK"

ScenarioA == <<Row(1, "OK", 120500), Row(2, "OK", 95000), Row(3, "ERROR", 0)>>

\* C2: min, median and max duration are those of the OK rows only; for the
\* rows of scenario A the record is total=3, ok=2, error=1, min=95.0,
\* max=120.5, median=107.75, fastest=2, slowest=1.
C2_StatsOverOkRows ==
    stats.written =>
        /\ OkCount(rows) > 0 =>
              /\ stats.min_duration_ms = Round2(MinOf(OkDurations(rows)))
              /\ stats.max_duration_ms = Round2(MaxOf(OkDurations(rows)))
              /\ stats.median_duration_ms = Round2(Median(OkDurations(rows)))
        /\ rows = ScenarioA =>
              /\ stats.total_queries = 3 /\ stats.ok_count = 2
              /\ stats.error_count = 1
              /\ stats.min_duration_ms = 9500 /\ stats.max_duration_ms = 12050
              /\ stats.median_duration_ms = 10775
              /\ stats.fastest_query = Some(2) /\ stats.slowest_query = Some(1)

\* C3: for every non-empty row sequence, whatever the statuses,
\* ok_count + error_count = total_queries = the number of rows.
C3_CountsAddUp ==
    stats.written =>
        /\ stats.total_queries = Len(rows)
        /\ stats.ok_count + stats.error_count = stats.total_queries

C3_Witness ==
    /\ stats.written
    /\ \E i, j, k \in 1..Len(rows) :
          rows[i].status = "OK" /\ rows[j].status = "ERROR"
          /\ rows[k].status = "TIMEOUT"

-----------------------------------------------------------------------------
(* Properties of make_run_dir and of an invocation *)

Range(sq) == {sq[i] : i \in 1..Len(sq)}

\* the k-th candidate name for (date, scale): no suffix, then _2, _3, ...
Candidate(date, sf, k) ==
    IF k = 1 THEN date \o <<"_", "s", "f">> \o sf
    ELSE date \o <<"_", "s", "f">> \o sf \o <<"_">> \o StrInt(k)

\* C4: make_run_dir returns a path that did not exist when the call started
\* and creates it; the path is the first of <date>_sf<scale>, _2, _3, ... that
\* is free, and it differs from every path returned earlier that still exists.
C4_FreshRunDir ==
    [][MakeRunDir =>
         LET d == cur'.run_dir
         IN  /\ d \notin DOMAIN fs
             /\ d \in DOMAIN fs' /\ fs'[d] = EmptyDir
             /\ \E k \in 1..(Cardinality(DOMAIN fs) + 1) :
                   /\ d = Candidate(cur.date, cur.sf, k)
                   /\ \A j \in 1..(k - 1) :
                         Candidate(cur.date, cur.sf, j) \in DOMAIN fs
             /\ \A i \in 1..Len(alloc) :
                   alloc[i].name \in DOMAIN fs => alloc[i].name # d
             /\ alloc # <<>> /\ alloc[Len(alloc)].name \in DOMAIN fs
                   => alloc'[Len(alloc')].name # alloc[Len(alloc)].name]_vars

\* the third call returns the unsuffixed name, freed by the operator, while
\* the _2 directory of the same date and scale "unknown" exists
C4_Witness ==
    /\ pc = "allocated"
    /\ Len(alloc) = 3
    /\ cur.sf = Unknown
    /\ alloc[1].name = Candidate(cur.date, cur.sf, 1)
    /\ alloc[2].name = Candidate(cur.date, cur.sf, 2)
    /\ alloc[2].name \in cur.pre
    /\ alloc[3].name = alloc[1].name
    /\ cur.run_dir = alloc[3].name

\* C5: an invocation leaves every artifact of every run directory that
\* existed before it started unchanged; of the files that existed it may
\* rewrite the index document only.
C5_OldRunsUntouched ==
    [][Invocation =>
         \A d \in cur.pre : d \in DOMAIN fs' /\ fs'[d] = fs[d]]_vars

\* a second run for the same date and scale has finished next to the first
C5_Witness ==
    /\ pc = "done"
    /\ readme.by = cur.id
    /\ \E d \in cur.pre :
          /\ d \in DOMAIN fs
          /\ fs[d].meta.st = "ok" /\ fs[d].meta.by # cur.id
          /\ fs[d].csv # 0 /\ fs[d].png # 0
          /\ cur.run_dir = d \o <<"_", "2">>

-----------------------------------------------------------------------------
(* Properties of update_readme *)

Matching(fsys) == {d \in DOMAIN fsys : GlobMatch(d)}
Readable(fsys) == {d \in Matching(fsys) : fsys[d].meta.st = "ok"}
Unreadable(fsys) == {d \in Matching(fsys) : fsys[d].meta.st = "partial"}

\* the index written by this call covers exactly the runs of the set S
IndexCovers(S) ==
    /\ readme'.by = cur.id
    /\ Range(readme'.runs) = S
    /\ Len(readme'.runs) = Cardinality(S)

\* C6: with a run directory whose meta.json is unreadable, update_readme
\* skips that run, does not end in an error and writes an index of every run
\* that has a valid meta.json.
C6_UnreadableMetaSkipped ==
    [][(UpdateReadme /\ Unreadable(fs) # {}) =>
         /\ pc' = "done"
         /\ Readable(fs) # {} => IndexCovers(Readable(fs))]_vars

AllocPos(name) == CHOOSE i \in 1..Len(alloc) : alloc[i].name = name

Digit(c) == Ord(c) - 48

\* the calendar day of an ISO date YYYY-MM-DD as the number YYYYMMDD
DateNum(date) ==
    Digit(date[1]) * 10000000 + Digit(date[2]) * 1000000
    + Digit(date[3]) * 100000 + Digit(date[4]) * 10000
    + Digit(date[6]) * 1000 + Digit(date[7]) * 100
    + Digit(date[9]) * 10 + Digit(date[10])

\* C8: the index lists the runs most recent first: a run of a later date
\* precedes a run of an earlier date, and among runs of one date and scale a
\* run allocated later precedes every run allocated earlier.
C8_IndexMostRecentFirst ==
    pc = "done" =>
        \A i, j \in 1..Len(readme.runs) :
            LET a == alloc[AllocPos(readme.runs[i])]
                b == alloc[AllocPos(readme.runs[j])]
            IN  /\ DateNum(a.date) > DateNum(b.date) => i < j
                /\ (a.date = b.date /\ a.sf = b.sf
                    /\ AllocPos(a.name) > AllocPos(b.name)) => i < j

\* C9: after a successful invocation the index written at its end includes
\* the run the invocation recorded.
C9_NewRunIndexed ==
    pc = "done" => readme.by = cur.id /\ cur.run_dir \in Range(readme.runs)

\* C12: an invocation that cannot connect, or that fetches no row, ends with
\* a non-zero exit status and a message of its own; up to that exit no run
\* directory has been created, and the step that reaches the exit and the
\* exit itself leave every run directory, every artifact and the index as
\* they were.
C12_EarlyExitWritesNothing ==
    /\ [](pc \in {"exit_connect", "exit_nodata"} =>
            /\ ExitStatus(pc) # 0
            /\ Stderr(pc) # ""
            /\ \A q \in {"exit_connect", "exit_nodata"} \ {pc} :
                  Stderr(q) # Stderr(pc)
            /\ cur.run_dir = <<>>
            /\ DOMAIN fs = cur.pre)
    /\ [][(pc \in {"exit_connect", "exit_nodata"}
            \/ pc' \in {"exit_connect", "exit_nodata"}) =>
              fs' = fs /\ readme' = readme]_vars

\* an invocation has ended for want of rows, next to an earlier run and its
\* index
C12_Witness ==
    /\ pc = "exit_nodata"
    /\ readme.by # 0
    /\ \E d \in DOMAIN fs : fs[d].meta.st = "ok"

\* C13: when no directory matches the pattern, or none of the matching ones
\* has a meta.json, update_readme writes nothing: no index is created and an
\* index written by an earlier invocation stays as it is.
C13_NoRunNoWrite ==
    [][(pc = "meta" /\ pc' # "meta"
        /\ \A d \in Matching(fs) : fs[d].meta.st = "absent") =>
          readme' = readme]_vars

\* update_readme has returned without any discoverable run, and the index of
\* an earlier invocation is still in place
C13_Witness ==
    /\ pc = "done"
    /\ \A d \in Matching(fs) : fs[d].meta.st = "absent"
    /\ readme.by # 0 /\ readme.by # cur.id

\* C14: the index written from the readable runs has an "All Runs" table
\* exactly when there is more than one of them; the table then has one row
\* per readable run, the latest included, in descending order of name (the
\* order of discovery); the "Latest Run" section describes the first of them.
C14_AllRunsTable ==
    [][(UpdateReadme /\ Unreadable(fs) = {} /\ Readable(fs) # {}) =>
         LET S == Readable(fs)
             t == readme'.table
         IN  /\ readme'.by = cur.id
             /\ readme'.latest \in S
             /\ \A d \in S \ {readme'.latest} : StrLess(d, readme'.latest)
             /\ (t # <<>>) <=> (Cardinality(S) > 1)
             /\ t # <<>> =>
                   /\ Len(t) = Cardinality(S)
                   /\ Range(t) = S
                   /\ t[1] = readme'.latest
                   /\ \A i, j \in 1..Len(t) : i < j => StrLess(t[j], t[i])]_vars

\* an index with an "All Runs" table of two or more rows has been written
C14_Witness ==
    /\ pc = "done"
    /\ readme.by = cur.id
    /\ Len(readme.table) >= 2

\* C18: the invocation writes summary.csv, then queries.png, then meta.json;
\* in every state a run directory that holds a meta.json holds summary.csv
\* and queries.png, and every run listed by an index rewrite has both.
C18_MetaImpliesArtifacts ==
    /\ [](/\ \A d \in DOMAIN fs :
                fs[d].meta.st # "absent" => fs[d].csv # 0 /\ fs[d].png # 0
          /\ pc = "csv" => fs[cur.run_dir] = [EmptyDir EXCEPT !.csv = cur.id]
          /\ pc = "png" =>
                fs[cur.run_dir] = [EmptyDir EXCEPT !.csv = cur.id, !.png = cur.id])
    /\ [][readme' # readme =>
            \A d \in Range(readme'.runs) :
                d \in DOMAIN fs /\ fs[d].csv # 0 /\ fs[d].png # 0]_vars

\* an invocation failed after queries.png and another one inside
\* write_meta_json, next to a complete run that the index lists
C18_Witness ==
    /\ \E d \in DOMAIN fs :
          fs[d].meta.st = "absent" /\ fs[d].csv # 0 /\ fs[d].png # 0
    /\ \E d \in DOMAIN fs : fs[d].meta.st = "partial"
    /\ \E d \in DOMAIN fs : fs[d].meta.st = "ok" /\ d \in Range(readme.runs)

-----------------------------------------------------------------------------
(* Properties of overlapping invocations *)

\* C15: whatever the other invocation is doing, the update_readme scan of an
\* invocation does not fail, and every run of the index it writes has a
\* completely written meta.json.
C15_ScanSeesOnlyFinishedRuns ==
    [][\A p \in Procs :
          (inv[p].pc = "meta" /\ inv'[p].pc # "meta") =>
              /\ inv'[p].pc = "done"
              /\ readme' # readme =>
                    \A d \in Range(readme'.runs) : fs[d].meta.st = "ok"]_vars

\* the invocation of process p is past make_run_dir
Allocated(p) == inv[p].pc \in {"allocated", "csv", "png", "opened", "meta", "done"}

\* C16: os.makedirs never fails, on an existing directory either; two
\* invocations for the same date and scale that each looked at the directory
\* before the other created its run directory hold the same path; two
\* invocations hold the same path only in that case; and each of them writes
\* its artifacts into that one directory.
C16_NoArbitration ==
    /\ [][\A p \in Procs :
            (inv[p].pc = "probed" /\ inv'[p].pc # "probed") =>
                /\ inv'[p].pc = "allocated"
                /\ inv'[p].run_dir = inv[p].run_dir
                /\ inv[p].run_dir \in DOMAIN fs']_vars
    /\ [](\A p, q \in Procs :
            (p # q /\ Allocated(p) /\ Allocated(q)) =>
                ((/\ inv[p].date = inv[q].date /\ inv[p].sf = inv[q].sf
                  /\ inv[p].run_dir \notin inv[q].seen
                  /\ inv[q].run_dir \notin inv[p].seen)
                 <=> inv[p].run_dir = inv[q].run_dir))
    /\ [][\A p \in Procs :
            LET d == inv[p].run_dir
            IN  /\ (inv[p].pc = "allocated" /\ inv'[p].pc = "csv") =>
                      fs'[d].csv = inv[p].id
                /\ (inv[p].pc = "csv" /\ inv'[p].pc = "png") =>
                      fs'[d].png = inv[p].id
                /\ (inv[p].pc = "opened" /\ inv'[p].pc = "meta") =>
                      fs'[d].meta = [st |-> "ok", by |-> inv[p].id]]_vars

\* both invocations have written all their artifacts into one directory,
\* which holds files of the one and files of the other
C16_Witness ==
    /\ inv[1].run_dir = inv[2].run_dir
    /\ inv[1].pc \in {"meta", "done"} /\ inv[2].pc \in {"meta", "done"}
    /\ DOMAIN fs = {inv[1].run_dir}
    /\ fs[inv[1].run_dir].csv # fs[inv[1].run_dir].meta.by

-----------------------------------------------------------------------------
(* Properties of gen_pg_conf.py *)

RECURSIVE IntOf(_)
\* the integer a setting's value denotes
IntOf(str) ==
    IF str = <<>> THEN 0
    ELSE 10 * IntOf(SubSeq(str, 1, Len(str) - 1))
         + (CHOOSE d \in 0..9 : DigitChar(d) = str[Len(str)])

\* C20: in the generated settings max_parallel_workers_per_gather is in 2..8
\* and max_parallel_maintenance_workers in 2..4, neither exceeds
\* max_parallel_workers, and max_parallel_workers does not exceed
\* max_worker_processes.
C20_ParallelismConsistent ==
    params.written =>
        LET processes == IntOf(params.max_worker_processes)
            workers == IntOf(params.max_parallel_workers)
            per_gather == IntOf(params.max_parallel_workers_per_gather)
            maintenance == IntOf(params.max_parallel_maintenance_workers)
        IN  /\ per_gather \in 2..8
            /\ maintenance \in 2..4
            /\ per_gather <= workers
            /\ maintenance <= workers
            /\ workers <= processes

-----------------------------------------------------------------------------
(* Properties of create_chart *)

\* v is the k-th smallest (k counted from 0) of the durations ds
IsOrderStat(ds, k, v) ==
    /\ v \in Range(ds)
    /\ Cardinality({i \in 1..Len(ds) : ds[i] < v}) <= k
    /\ Cardinality({i \in 1..Len(ds) : ds[i] <= v}) > k

Greatest(ds) == CHOOSE v \in Range(ds) : \A w \in Range(ds) : w <= v

\* C10: with p95 the sorted duration at index floor(0.95 n), or the maximum
\* when n < 5: if max <= 3 p95, p95 = 0 or n < 5 nothing is clipped and every
\* bar has its true height; otherwise the cap is 2 p95 and exactly the bars
\* whose duration exceeds the cap carry an annotation of their true value.
C10_ClippingRule ==
    chart.drawn =>
        LET n == Len(durs)
            mx == Greatest(durs)
            p95 == IF n < 5 THEN mx
                   ELSE CHOOSE v \in Range(durs) :
                            IsOrderStat(durs, (95 * n) \div 100, v)
        IN  IF mx <= 3 * p95 \/ p95 = 0 \/ n < 5
            THEN /\ chart.ylim = None
                 /\ \A i \in 1..n :
                       chart.height[i] = 100 * durs[i] /\ chart.text[i] = None
            ELSE /\ chart.ylim = Some(112 * 2 * p95)
                 /\ \A i \in 1..n :
                       /\ (chart.text[i] # None) <=> (durs[i] > 2 * p95)
                       /\ chart.text[i] # None =>
                             chart.text[i] = Some(Label(durs[i]))
                       /\ chart.text[i] = None =>
                             chart.height[i] = 100 * durs[i]

\* a clipped chart: one bar annotated, the other bars at their true height
C10_Witness ==
    /\ chart.drawn
    /\ chart.ylim # None
    /\ \E i, j \in 1..Len(durs) :
          /\ chart.text[i] # None /\ chart.height[i] < 100 * durs[i]
          /\ chart.text[j] = None /\ durs[j] > 0

\* the rows of scenario B
ScenarioB7 == ChartInput(7, 100000, 7, 5000000, 7, 5000000)
ScenarioB8 == ChartInput(8, 100000, 8, 20000000, 8, 20000000)

\* C11 as stated: the seven rows of scenario B (six of 100 ms, one of 5000 ms)
\* have p95 = 5000 and are not clipped; the eight rows (seven of 100 ms, one
\* of 20000 ms) have p95 = 100, are clipped at 200 and the eighth bar is
\* annotated "20000".
C11_ScenarioB_AsStated ==
    chart.drawn =>
        /\ durs = ScenarioB7 =>
              chart.p95 = 5000000 /\ chart.y_cap = None /\ chart.ylim = None
        /\ durs = ScenarioB8 =>
              /\ chart.p95 = 100000
              /\ chart.y_cap = Some(200000)
              /\ chart.ylim = Some(112 * 200000)
              /\ chart.text[8] = Some([num |-> 20000, suffix |-> ""])

\* C11, amended: the seven rows have p95 = 5000 (sorted index 6) and are not
\* clipped; the eight rows have p95 = 20000 (sorted index 7, the maximum), so
\* nothing is clipped and the eighth bar keeps its true height and carries no
\* annotation.
C11_ScenarioB ==
    chart.drawn =>
        /\ durs = ScenarioB7 =>
              /\ chart.p95 = Sorted(durs)[6 + 1] /\ chart.p95 = 5000000
              /\ chart.y_cap = None /\ chart.ylim = None
        /\ durs = ScenarioB8 =>
              /\ chart.p95 = Sorted(durs)[7 + 1] /\ chart.p95 = 20000000
              /\ chart.y_cap = None /\ chart.ylim = None
              /\ chart.height[8] = 100 * 20000000
              /\ chart.text[8] = None

\* the chart of the eight rows of scenario B has been drawn
C11_Witness == chart.drawn /\ durs = ScenarioB8

\* C19: a chart of 20 or fewer rows has p95 equal to the largest duration and
\* is never clipped (no cap, no y limit, every bar at its true height and
\* without annotation); a clipped chart has at least 21 rows.
C19_SmallChartsNeverClip ==
    chart.drawn =>
        /\ Len(durs) <= 20 =>
              /\ chart.p95 = Greatest(durs)
              /\ chart.y_cap = None /\ chart.ylim = None
              /\ \A i \in 1..Len(durs) :
                    chart.height[i] = 100 * durs[i] /\ chart.text[i] = None
        /\ chart.ylim # None => Len(durs) >= 21

\* a clipped chart of exactly 21 rows
C19_Witness ==
    /\ chart.drawn /\ Len(durs) = 21
    /\ chart.ylim # None
    /\ \E i \in 1..21 : chart.text[i] # None

\* C17 as stated: no bar is drawn taller than its true duration, and every
\* bar whose duration exceeds the y limit (1.12 x cap) is redrawn at
\* 1.05 x cap and annotated with its true value.
C17_ClipOnlyCompresses_AsStated ==
    chart.drawn =>
        \A i \in 1..Len(durs) :
            /\ chart.height[i] <= 100 * durs[i]
            /\ (chart.ylim # None /\ 100 * durs[i] > Val(chart.ylim)) =>
                  /\ chart.height[i] = 105 * Val(chart.y_cap)
                  /\ chart.text[i] = Some(Label(durs[i]))

\* C17, amended: a bar is drawn taller than its true duration only when the
\* chart is clipped and the duration lies strictly between the cap and
\* 1.05 x cap, and then it is drawn at 1.05 x cap and annotated with its true
\* value; every bar whose duration exceeds the y limit (1.12 x cap) is
\* redrawn at 1.05 x cap and annotated with its true value.
C17_ClipOnlyCompresses ==
    chart.drawn =>
        \A i \in 1..Len(durs) :
            /\ chart.height[i] > 100 * durs[i] =>
                  /\ chart.y_cap # None
                  /\ durs[i] > Val(chart.y_cap)
                  /\ 100 * durs[i] < 105 * Val(chart.y_cap)
                  /\ chart.height[i] = 105 * Val(chart.y_cap)
                  /\ chart.text[i] = Some(Label(durs[i]))
            /\ (chart.ylim # None /\ 100 * durs[i] > Val(chart.ylim)) =>
                  /\ chart.height[i] = 105 * Val(chart.y_cap)
                  /\ chart.text[i] = Some(Label(durs[i]))

\* a clipped chart with one bar drawn above its true duration and one bar
\* beyond the y limit
C17_Witness ==
    /\ chart.drawn
    /\ chart.ylim # None
    /\ \E i, j \in 1..Len(durs) :
          /\ chart.height[i] > 100 * durs[i]
          /\ 100 * durs[j] > Val(chart.ylim) /\ chart.text[j] # None

====
